---- MODULE Spec2Model ----
\* A model of src/main.py: the command-line crawler that downloads a wikipedia
\* page, follows its internal links breadth-first under an iteration budget,
\* and saves the (anchor text -> absolute URL) mapping as JSON.
\*
\* Strings are sequences of one-character strings, so that prefix tests,
\* concatenation and the regular expression of parse_url are computed, not
\* assumed.
EXTENDS Integers, Sequences, FiniteSets, TLC

\* ---------------------------------------------------------------- bounds

\* Largest --max-iterations value the runs are given.
MaxIterations == 3

\* ------------------------------------------------------ program constants

\* Queue(iteration_limit + 10): the slack added to the iteration budget.
QueueSlack == 10

\* response.status_code != 200
StatusOk == 200

\* sys.exit(1)
ExitFailure == 1

\* ---------------------------------------------------------------- strings

Lowercase ==
    {"a","b","c","d","e","f","g","h","i","j","k","l","m",
     "n","o","p","q","r","s","t","u","v","w","x","y","z"}

sHttp      == <<"h","t","t","p">>
sHttps     == <<"h","t","t","p","s">>
sColSlash  == <<":","/","/">>
sWikipedia == <<"w","i","k","i","p","e","d","i","a">>
sOrg       == <<"o","r","g">>
sDotWikipediaOrg == <<".">> \o sWikipedia \o <<".">> \o sOrg
sWikiPath  == <<"/","w","i","k","i","/">>
sExample   == <<"e","x","a","m","p","l","e",".","c","o","m","/","x">>

\* The last element of a sequence.
Last(s) == s[Len(s)]

\* str.startswith
StartsWith(s, prefix) ==
    /\ Len(prefix) <= Len(s)
    /\ SubSeq(s, 1, Len(prefix)) = prefix

\* The literal lit occurs in s at position i.
LitAt(s, i, lit) ==
    /\ i + Len(lit) - 1 <= Len(s)
    /\ SubSeq(s, i, i + Len(lit) - 1) = lit

\* ' '.join(parts)
RECURSIVE JoinSpace(_)
JoinSpace(parts) ==
    IF parts = <<>> THEN <<>>
    ELSE IF Len(parts) = 1 THEN parts[1]
    ELSE parts[1] \o <<" ">> \o JoinSpace(Tail(parts))

\* ------------------------------------------------------------- the inputs

\* Command lines: --url
SeedEn  == sHttps \o sColSlash \o <<"e","n">> \o sDotWikipediaOrg \o sWikiPath \o <<"A">>
SeedRu  == sHttp \o sColSlash \o <<"r","u">> \o sDotWikipediaOrg \o <<"/">>
SeedBad == sHttps \o sColSlash \o sExample
\* https://en.wikipedia-org/wiki/A: another host, one character from the site's
SeedDash == sHttps \o sColSlash \o <<"e","n",".">> \o sWikipedia \o <<"-">> \o sOrg
                \o sWikiPath \o <<"A">>
\* https://en.wikipedia.org, without the slash that ends the host
SeedNoSlash == sHttps \o sColSlash \o <<"e","n">> \o sDotWikipediaOrg
Seeds == {SeedEn, SeedRu, SeedBad, SeedDash, SeedNoSlash}

\* --max-iterations: type = int, any integer is accepted.
IterationLimits == {0 - QueueSlack, -1, 0} \cup (1 .. MaxIterations)

\* --delay: type = float, any number is accepted (whole seconds here).
Delays == {-1, 0, 1}

\* ------------------------------------------------------------- the web

NoHref == <<"<", "no href", ">">>

TextNode(s) == [kind |-> "str", texts |-> <<s>>]
TagNode(ts) == [kind |-> "tag", texts |-> ts]
Anchor(href, children) == [href |-> href, children |-> children]

hrefA   == sWikiPath \o <<"A">>
hrefB   == sWikiPath \o <<"B">>
hrefC   == sWikiPath \o <<"C">>
hrefW   == <<"/","w","/","C">>
hrefExt == sHttps \o sColSlash \o sExample

\* http://insecure.example/a and https://secure.example/b
sDotExample  == <<".","e","x","a","m","p","l","e","/">>
hrefInsecure == sHttp \o sColSlash \o <<"i","n","s","e","c","u","r","e">> \o sDotExample \o <<"a">>
hrefSecure   == sHttps \o sColSlash \o <<"s","e","c","u","r","e">> \o sDotExample \o <<"b">>

\* Number of anchors of the large page: more than any queue of the runs holds.
BigPageAnchors == QueueSlack + MaxIterations + 1

\* The documents a server may answer with, as the anchors of bs.find_all('a')
\* in document order.
Pages ==
    << \* no anchor at all
       <<>>,
       \* one internal link and one external link
       << Anchor(hrefB, <<TextNode(<<"B">>)>>),
          Anchor(hrefExt, <<TextNode(<<"e","x","t">>)>>) >>,
       \* an anchor without href, a link back to /wiki/A, a near miss of the
       \* prefix, and an anchor with no text
       << Anchor(NoHref, <<TextNode(<<"x">>)>>),
          Anchor(hrefA, <<TextNode(<<"B">>)>>),
          Anchor(hrefW, <<TextNode(<<"C">>)>>),
          Anchor(hrefC, <<>>) >>,
       \* nested inline elements: both anchors have the text "a b"
       << Anchor(hrefB, <<TextNode(<<"a">>), TagNode(<< <<"b">> >>)>>),
          Anchor(hrefC, <<TagNode(<< <<"a">>, <<"b">> >>)>>) >>,
       \* many internal links
       [i \in 1 .. BigPageAnchors |-> Anchor(hrefA, <<TextNode(<<"A">>)>>)],
       \* an insecure and a secure absolute link
       << Anchor(hrefInsecure, <<TextNode(<<"I">>)>>),
          Anchor(hrefSecure, <<TextNode(<<"S">>)>>) >>
    >>

PageIds == 1 .. Len(Pages)

\* Content the markup parser raises on.
BadMarkup == 0

ErrorStatuses == {404, 500}

\* What rq.get may do: raise, or answer with a status and a body.
Responses ==
    {[kind |-> "raise", status |-> 0, body |-> BadMarkup]}
    \cup {[kind |-> "response", status |-> s, body |-> BadMarkup] : s \in ErrorStatuses}
    \cup {[kind |-> "response", status |-> StatusOk, body |-> b] : b \in PageIds \cup {BadMarkup}}

\* ------------------------------------------------------------- functions

\* find_text
find_text(element) == element.texts

\* concat_lists: sum(list_of_lists, [])
RECURSIVE concat_lists(_)
concat_lists(list_of_lists) ==
    IF list_of_lists = <<>> THEN <<>>
    ELSE Head(list_of_lists) \o concat_lists(Tail(list_of_lists))

\* The text find_links gives an anchor.
anchor_text(element) ==
    JoinSpace(concat_lists([i \in 1 .. Len(element.children) |->
                                find_text(element.children[i])]))

\* element['href'] raises KeyError
has_href(element) == element.href # NoHref

\* A prefix test that stops after the first two characters.
is_internal_short(u) == StartsWith(u, <<"/", "w">>)

\* is_internal
is_internal(u) == StartsWith(u, sWikiPath)

\* A resolver with the English site written into it.
make_absolute_en(u, lg) == sHttps \o sColSlash \o <<"e","n">> \o sDotWikipediaOrg \o u

\* make_absolute
make_absolute(u, lg) == sHttps \o sColSlash \o lg \o sDotWikipediaOrg \o u

\* The end of the longest run of [a-z] that starts at position i of s
\* (i - 1 when there is none).
RECURSIVE LowerRunEnd(_, _)
LowerRunEnd(s, i) ==
    IF i <= Len(s) /\ s[i] \in Lowercase THEN LowerRunEnd(s, i + 1) ELSE i - 1

NoMatch == <<"<", "None", ">">>

\* parse_url: re.match(r'https?://([a-z]+)[.]wikipedia.org/', url), group 1;
\* the dot before org is unescaped and matches any character but a newline.
parse_url(u) ==
    IF ~StartsWith(u, sHttp) THEN NoMatch
    ELSE
    LET i == IF LitAt(u, 5, <<"s">>) THEN 6 ELSE 5
        j == i + 3
        e == LowerRunEnd(u, j)
        k == e + 2 + Len(sWikipedia)
    IN  IF /\ LitAt(u, i, sColSlash)
           /\ e >= j
           /\ LitAt(u, e + 1, <<".">> \o sWikipedia)
           /\ k <= Len(u) /\ u[k] # "\n"
           /\ LitAt(u, k + 1, sOrg \o <<"/">>)
        THEN SubSeq(u, j, e)
        ELSE NoMatch

\* A fullness test that is off by one.
QueueFullEarly(q, maxsize) == 0 < maxsize /\ maxsize <= Len(q) + 1

\* Queue.full: 0 < maxsize <= qsize; a queue with maxsize <= 0 is unbounded.
QueueFull(q, maxsize) == 0 < maxsize /\ maxsize <= Len(q)

\* Queue.empty
QueueEmpty(q) == Len(q) = 0

\* A map that keeps the first value of a key.
DictSetIfAbsent(d, key, val) ==
    [t \in (DOMAIN d) \cup {key} |-> IF t \in DOMAIN d THEN d[t] ELSE val]

\* dict(...): a later pair with the same key replaces the earlier one.
DictSet(d, key, val) ==
    [t \in (DOMAIN d) \cup {key} |-> IF t = key THEN val ELSE d[t]]

EmptyDict == [t \in {} |-> <<>>]

\* ------------------------------------------------------------- the state

VARIABLES
    url,            \* config.url
    max_iterations, \* config.max_iterations (iteration_limit)
    delay,          \* config.delay
    pc,             \* where the run is
    lang,           \* parsed_url.group(1)
    task_queue,     \* the Queue of recursive_download_and_parse, oldest first
    iterations,     \* its counter
    current_url,    \* the task of the running iteration
    elements,       \* anchors of the page not yet visited by find_links
    href,           \* target of the record just yielded, not yet offered to the queue
    result,         \* the dict main builds from the generator
    output,         \* the maps written to the output file, in order
    exit_code,      \* <<>> while running, <<status>> once the process has ended
    log,            \* logger calls: <<level, message, number>>
    served,         \* the outcome of each download, in order
    fetched,        \* the URL of each download, in order
    yielded,        \* every (text, href) the generator has yielded, in order
    accepted,       \* every URL put into the queue, in order
    dropped,        \* every URL refused by a full queue, in order
    sleeps,         \* calls of time.sleep that returned
    mark,           \* lengths of yielded and accepted when the iteration began
    unbounded       \* the same crawl with a queue that refuses nothing: its
                    \* queue and the URLs it has fetched

vars == <<url, max_iterations, delay, pc, lang, task_queue, iterations,
          current_url, elements, href, result, output, exit_code, log, served,
          fetched, yielded, accepted, dropped, sleeps, mark, unbounded>>

config   == <<url, max_iterations, delay>>
history  == <<served, fetched, yielded, accepted, dropped, sleeps, mark, unbounded>>

\* A queue sized at half the iteration budget, with no slack.
CapacityHalved == max_iterations \div 2

\* Queue(iteration_limit + 10)
Capacity == max_iterations + QueueSlack

Info(n)          == <<"info", "Iteration", n>>
ErrDownload      == <<"error", "Unable to download the web page", 0>>
ErrStatus(code)  == <<"error", "Server returned", code>>
ErrParse         == <<"error", "Unable to parse HTML", 0>>
ErrSleep         == <<"error", "sleep length must be non-negative", 0>>
ErrNotWikipedia  == <<"error", "The program can only work with wikipedia urls", 0>>
ErrWrite         == <<"error", "Failed to write file", 0>>

Init ==
    /\ url \in Seeds
    /\ max_iterations \in IterationLimits
    /\ delay \in Delays
    /\ pc = "main"
    /\ lang = NoMatch
    /\ task_queue = <<>>
    /\ iterations = 0
    /\ current_url = <<>>
    /\ elements = <<>>
    /\ href = <<>>
    /\ result = EmptyDict
    /\ output = <<>>
    /\ exit_code = <<>>
    /\ log = <<>>
    /\ served = <<>>
    /\ fetched = <<>>
    /\ yielded = <<>>
    /\ accepted = <<>>
    /\ dropped = <<>>
    /\ sleeps = 0
    /\ mark = [yielded |-> 0, accepted |-> 0]
    /\ unbounded = [queue |-> <<>>, fetched |-> <<>>]

\* ------------------------------------------------------------------ main

\* main: the seed URL matches, the generator is created and dict() starts
\* to consume it.
MainStart ==
    /\ pc = "main"
    /\ parse_url(url) # NoMatch
    /\ lang' = parse_url(url)
    /\ pc' = "crawl"
    /\ UNCHANGED <<config, task_queue, iterations, current_url, elements, href,
                   result, output, exit_code, log, history>>

\* main: parse_url returns None; the exception is logged and sys.exit(1).
MainBadUrl ==
    /\ pc = "main"
    /\ parse_url(url) = NoMatch
    /\ log' = Append(log, ErrNotWikipedia)
    /\ exit_code' = <<ExitFailure>>
    /\ pc' = "exit"
    /\ UNCHANGED <<config, lang, task_queue, iterations, current_url, elements,
                   href, result, output, history>>

\* ------------------------------------------- recursive_download_and_parse

\* The queue is created and seeded, the counter starts at 0.
StartCrawl ==
    /\ pc = "crawl"
    /\ task_queue' = <<url>>
    /\ accepted' = Append(accepted, url)
    /\ iterations' = 0
    /\ unbounded' = [queue |-> <<url>>, fetched |-> <<>>]
    /\ pc' = "loop"
    /\ UNCHANGED <<config, lang, current_url, elements, href, result, output,
                   exit_code, log, served, fetched, yielded, dropped, sleeps, mark>>

\* A loop test that is off by one.
LoopConditionInclusive == ~QueueEmpty(task_queue) /\ iterations <= max_iterations

\* while not task_queue.empty() and iterations < iteration_limit
LoopCondition == ~QueueEmpty(task_queue) /\ iterations < max_iterations

\* A loop body that takes the newest task instead of the oldest.
DequeueNewest ==
    /\ pc = "loop"
    /\ LoopCondition
    /\ current_url' = Last(task_queue)
    /\ task_queue' = SubSeq(task_queue, 1, Len(task_queue) - 1)
    /\ iterations' = iterations + 1
    /\ log' = Append(log, Info(iterations + 1))
    /\ fetched' = Append(fetched, Last(task_queue))
    /\ mark' = [yielded |-> Len(yielded), accepted |-> Len(accepted)]
    /\ unbounded' = [queue |-> Tail(unbounded.queue),
                     fetched |-> Append(unbounded.fetched, Head(unbounded.queue))]
    /\ pc' = "fetch"
    /\ UNCHANGED <<config, lang, elements, href, result, output, exit_code,
                   served, yielded, accepted, dropped, sleeps>>

\* The loop body begins: get_nowait, iterations += 1, logger.info.
Dequeue ==
    /\ pc = "loop"
    /\ LoopCondition
    /\ current_url' = Head(task_queue)
    /\ task_queue' = Tail(task_queue)
    /\ iterations' = iterations + 1
    /\ log' = Append(log, Info(iterations + 1))
    /\ fetched' = Append(fetched, Head(task_queue))
    /\ mark' = [yielded |-> Len(yielded), accepted |-> Len(accepted)]
    /\ unbounded' = [queue |-> Tail(unbounded.queue),
                     fetched |-> Append(unbounded.fetched, Head(unbounded.queue))]
    /\ pc' = "fetch"
    /\ UNCHANGED <<config, lang, elements, href, result, output, exit_code,
                   served, yielded, accepted, dropped, sleeps>>

\* The loop condition is false: the generator returns and dict() completes.
Finish ==
    /\ pc = "loop"
    /\ ~LoopCondition
    /\ pc' = "write"
    /\ UNCHANGED <<config, lang, task_queue, iterations, current_url, elements,
                   href, result, output, exit_code, log, history>>

\* A handler that leaves the loop instead of continuing it.
IterationFailsAndBreaks(r, message) ==
    /\ served' = Append(served, r)
    /\ log' = Append(log, message)
    /\ pc' = "write"
    /\ UNCHANGED <<config, lang, task_queue, iterations, current_url, elements,
                   href, result, output, exit_code, fetched, yielded, accepted,
                   dropped, sleeps, mark, unbounded>>

\* A handler that takes the failed attempt back from the counter.
IterationFailsUncounted(r, message) ==
    /\ served' = Append(served, r)
    /\ log' = Append(log, message)
    /\ iterations' = iterations - 1
    /\ pc' = "loop"
    /\ UNCHANGED <<config, lang, task_queue, current_url, elements,
                   href, result, output, exit_code, fetched, yielded, accepted,
                   dropped, sleeps, mark, unbounded>>

\* A failure that is not handled in the loop and reaches the handler of main.
IterationFailsFatally(r, message) ==
    /\ served' = Append(served, r)
    /\ log' = Append(log, message)
    /\ exit_code' = <<ExitFailure>>
    /\ pc' = "exit"
    /\ UNCHANGED <<config, lang, task_queue, iterations, current_url, elements,
                   href, result, output, fetched, yielded, accepted,
                   dropped, sleeps, mark, unbounded>>

\* except Exception as e: logger.error(e); continue
IterationFails(r, message) ==
    /\ served' = Append(served, r)
    /\ log' = Append(log, message)
    /\ pc' = "loop"
    /\ UNCHANGED <<config, lang, task_queue, iterations, current_url, elements,
                   href, result, output, exit_code, fetched, yielded, accepted,
                   dropped, sleeps, mark, unbounded>>

\* download_html_page: rq.get raises.
FetchTransportError ==
    /\ pc = "fetch"
    /\ \E r \in Responses :
        /\ r.kind = "raise"
        /\ IterationFails(r, ErrDownload)

\* download_html_page: the status is not 200.
FetchBadStatus ==
    /\ pc = "fetch"
    /\ \E r \in Responses :
        /\ r.kind = "response"
        /\ r.status # StatusOk
        /\ IterationFails(r, ErrStatus(r.status))

\* find_links: BeautifulSoup raises on the downloaded content, when the first
\* link is asked for.
FetchParseError ==
    /\ pc = "fetch"
    /\ \E r \in Responses :
        /\ r.kind = "response"
        /\ r.status = StatusOk
        /\ r.body = BadMarkup
        /\ IterationFails(r, ErrParse)

\* The page is downloaded and parsed; find_links starts on its anchors.
FetchOk ==
    /\ pc = "fetch"
    /\ \E r \in Responses :
        /\ r.kind = "response"
        /\ r.status = StatusOk
        /\ r.body # BadMarkup
        /\ served' = Append(served, r)
        /\ elements' = Pages[r.body]
    /\ pc' = "links"
    /\ UNCHANGED <<config, lang, task_queue, iterations, current_url, href,
                   result, output, exit_code, log, fetched, yielded, accepted,
                   dropped, sleeps, mark, unbounded>>

\* find_links: an anchor without href is skipped.
SkipNoHref ==
    /\ pc = "links"
    /\ elements # <<>>
    /\ ~has_href(Head(elements))
    /\ elements' = Tail(elements)
    /\ UNCHANGED <<config, pc, lang, task_queue, iterations, current_url, href,
                   result, output, exit_code, log, history>>

\* The generator expression drops a link that is not internal.
SkipExternal ==
    /\ pc = "links"
    /\ elements # <<>>
    /\ has_href(Head(elements))
    /\ ~is_internal(Head(elements).href)
    /\ elements' = Tail(elements)
    /\ UNCHANGED <<config, pc, lang, task_queue, iterations, current_url, href,
                   result, output, exit_code, log, history>>

\* yield text, href: the pair goes to dict(), which stores it.
YieldLink ==
    /\ pc = "links"
    /\ elements # <<>>
    /\ has_href(Head(elements))
    /\ is_internal(Head(elements).href)
    /\ LET text == anchor_text(Head(elements))
           target == make_absolute(Head(elements).href, lang)
       IN  /\ yielded' = Append(yielded, [text |-> text, href |-> target])
           /\ result' = DictSet(result, text, target)
           /\ href' = target
    /\ elements' = Tail(elements)
    /\ pc' = "offer"
    /\ UNCHANGED <<config, lang, task_queue, iterations, current_url, output,
                   exit_code, log, served, fetched, accepted, dropped, sleeps, mark, unbounded>>

\* An enqueue that keeps a visited set: a URL accepted before is not put again.
EnqueueUnseen ==
    /\ pc = "offer"
    /\ ~QueueFull(task_queue, Capacity)
    /\ IF \E i \in 1 .. Len(accepted) : accepted[i] = href
       THEN UNCHANGED <<task_queue, accepted>>
       ELSE /\ task_queue' = Append(task_queue, href)
            /\ accepted' = Append(accepted, href)
    /\ pc' = "links"
    /\ UNCHANGED <<config, lang, iterations, current_url, elements, href, result,
                   output, exit_code, log, served, fetched, yielded, dropped,
                   sleeps, mark, unbounded>>

\* if not task_queue.full(): task_queue.put_nowait(href)
Enqueue ==
    /\ pc = "offer"
    /\ ~QueueFull(task_queue, Capacity)
    /\ task_queue' = Append(task_queue, href)
    /\ accepted' = Append(accepted, href)
    /\ unbounded' = [unbounded EXCEPT !.queue = Append(unbounded.queue, href)]
    /\ pc' = "links"
    /\ UNCHANGED <<config, lang, iterations, current_url, elements, href, result,
                   output, exit_code, log, served, fetched, yielded, dropped,
                   sleeps, mark>>

\* A blocking put on the full queue: the single thread waits for a consumer
\* that does not exist.
PutBlocksWhenFull ==
    /\ pc = "offer"
    /\ QueueFull(task_queue, Capacity)
    /\ UNCHANGED vars

\* The queue is full: the link is not enqueued.
DropWhenFull ==
    /\ pc = "offer"
    /\ QueueFull(task_queue, Capacity)
    /\ dropped' = Append(dropped, href)
    /\ unbounded' = [unbounded EXCEPT !.queue = Append(unbounded.queue, href)]
    /\ pc' = "links"
    /\ UNCHANGED <<config, lang, task_queue, iterations, current_url, elements,
                   href, result, output, exit_code, log, served, fetched, yielded,
                   accepted, sleeps, mark>>

\* time.sleep(delay) returns.
Sleep ==
    /\ pc = "links"
    /\ elements = <<>>
    /\ delay >= 0
    /\ sleeps' = sleeps + 1
    /\ pc' = "loop"
    /\ UNCHANGED <<config, lang, task_queue, iterations, current_url, elements,
                   href, result, output, exit_code, log, served, fetched, yielded,
                   accepted, dropped, mark, unbounded>>

\* time.sleep(delay) raises ValueError on a negative delay; the handler of
\* the loop body logs it.
SleepRaises ==
    /\ pc = "links"
    /\ elements = <<>>
    /\ delay < 0
    /\ log' = Append(log, ErrSleep)
    /\ pc' = "loop"
    /\ UNCHANGED <<config, lang, task_queue, iterations, current_url, elements,
                   href, result, output, exit_code, served, fetched, yielded,
                   accepted, dropped, sleeps, mark, unbounded>>

\* ------------------------------------------------------------ write_json

\* write_json succeeds and main returns.
WriteOk ==
    /\ pc = "write"
    /\ output' = Append(output, result)
    /\ exit_code' = <<0>>
    /\ pc' = "exit"
    /\ UNCHANGED <<config, lang, task_queue, iterations, current_url, elements,
                   href, result, log, history>>

\* write_json raises; the exception is logged and sys.exit(1).
WriteFails ==
    /\ pc = "write"
    /\ log' = Append(log, ErrWrite)
    /\ exit_code' = <<ExitFailure>>
    /\ pc' = "exit"
    /\ UNCHANGED <<config, lang, task_queue, iterations, current_url, elements,
                   href, result, output, history>>

Next ==
    \/ MainStart
    \/ MainBadUrl
    \/ StartCrawl
    \/ Dequeue
    \/ Finish
    \/ FetchTransportError
    \/ FetchBadStatus
    \/ FetchParseError
    \/ FetchOk
    \/ SkipNoHref
    \/ SkipExternal
    \/ YieldLink
    \/ Enqueue
    \/ DropWhenFull
    \/ Sleep
    \/ SleepRaises
    \/ WriteOk
    \/ WriteFails

Spec == Init /\ [][Next]_vars

\* The program is one sequential thread: as long as it has a next statement
\* it executes it (every download and every sleep returns).
FairSpec == Spec /\ WF_vars(Next)

\* ------------------------------------------------- absolute-scheme mode
\* The crawl variant that collects the secure absolute links of the seed
\* page. src/main.py has only the site-relative variant; this one follows
\* the description of the classifier, the engine and the sink.

\* A scope test that accepts every http scheme.
is_secure_any_http(u) ==
    StartsWith(u, sHttp \o sColSlash) \/ StartsWith(u, sHttps \o sColSlash)

\* Scope predicate: the raw reference begins with the secure-scheme prefix.
is_secure(u) == StartsWith(u, sHttps \o sColSlash)

\* Resolver: the raw reference is absolute already and is returned unchanged.
resolve_absolute(u) == u

\* The seed page is downloaded and parsed.
AbsoluteFetchOk ==
    /\ pc = "main"
    /\ \E r \in Responses :
        /\ r.kind = "response"
        /\ r.status = StatusOk
        /\ r.body # BadMarkup
        /\ served' = Append(served, r)
        /\ elements' = Pages[r.body]
    /\ fetched' = Append(fetched, url)
    /\ iterations' = iterations + 1
    /\ pc' = "links"
    /\ UNCHANGED <<config, lang, task_queue, current_url, href, result, output,
                   exit_code, log, yielded, accepted, dropped, sleeps, mark, unbounded>>

\* The download or the parsing fails: logged, the page is abandoned.
AbsoluteFetchFails ==
    /\ pc = "main"
    /\ \E r \in Responses :
        /\ ~(r.kind = "response" /\ r.status = StatusOk /\ r.body # BadMarkup)
        /\ served' = Append(served, r)
        /\ log' = Append(log, IF r.kind = "raise" THEN ErrDownload
                               ELSE IF r.status # StatusOk THEN ErrStatus(r.status)
                               ELSE ErrParse)
    /\ fetched' = Append(fetched, url)
    /\ iterations' = iterations + 1
    /\ pc' = "write"
    /\ UNCHANGED <<config, lang, task_queue, current_url, elements, href, result,
                   output, exit_code, yielded, accepted, dropped, sleeps, mark, unbounded>>

\* An anchor without a target attribute is skipped.
AbsoluteSkipNoHref ==
    /\ pc = "links"
    /\ elements # <<>>
    /\ ~has_href(Head(elements))
    /\ elements' = Tail(elements)
    /\ UNCHANGED <<config, pc, lang, task_queue, iterations, current_url, href,
                   result, output, exit_code, log, history>>

\* A reference failing the scope predicate is dropped without error.
AbsoluteSkipOutOfScope ==
    /\ pc = "links"
    /\ elements # <<>>
    /\ has_href(Head(elements))
    /\ ~is_secure(Head(elements).href)
    /\ elements' = Tail(elements)
    /\ UNCHANGED <<config, pc, lang, task_queue, iterations, current_url, href,
                   result, output, exit_code, log, history>>

\* A reference passing the scope predicate is yielded to the sink.
AbsoluteYield ==
    /\ pc = "links"
    /\ elements # <<>>
    /\ has_href(Head(elements))
    /\ is_secure(Head(elements).href)
    /\ LET text == anchor_text(Head(elements))
           target == resolve_absolute(Head(elements).href)
       IN  /\ yielded' = Append(yielded, [text |-> text, href |-> target])
           /\ result' = DictSet(result, text, target)
    /\ elements' = Tail(elements)
    /\ UNCHANGED <<config, pc, lang, task_queue, iterations, current_url, href,
                   output, exit_code, log, served, fetched, accepted, dropped,
                   sleeps, mark, unbounded>>

\* All anchors of the page were visited: the collected pairs go to the sink.
AbsoluteFinish ==
    /\ pc = "links"
    /\ elements = <<>>
    /\ pc' = "write"
    /\ UNCHANGED <<config, lang, task_queue, iterations, current_url, elements,
                   href, result, output, exit_code, log, history>>

NextAbsolute ==
    \/ AbsoluteFetchOk
    \/ AbsoluteFetchFails
    \/ AbsoluteSkipNoHref
    \/ AbsoluteSkipOutOfScope
    \/ AbsoluteYield
    \/ AbsoluteFinish
    \/ WriteOk
    \/ WriteFails

SpecAbsolute == Init /\ [][NextAbsolute]_vars

\* =================================================================
\* Properties
\* =================================================================

\* The crawl has been started: the queue and the counter exist.
Started == lang # NoMatch /\ pc # "crawl"

\* The generator has returned (the state Done of the engine).
Done == Started /\ pc \in {"write", "exit"}

\* The raw reference begins with /wiki/, character by character.
BeginsWithWikiPath(h) ==
    /\ Len(h) >= 6
    /\ h[1] = "/" /\ h[2] = "w" /\ h[3] = "i" /\ h[4] = "k" /\ h[5] = "i" /\ h[6] = "/"

\* 'https://<lg>.wikipedia.org' + h, written out.
Resolved(h, lg) ==
    <<"h","t","t","p","s",":","/","/">> \o lg
        \o <<".","w","i","k","i","p","e","d","i","a",".","o","r","g">> \o h

\* The download of iteration i answered 200 with a page that parses.
ServedPage(i) ==
    /\ i \in 1 .. Len(served)
    /\ served[i].kind = "response"
    /\ served[i].status = 200
    /\ served[i].body \in PageIds

\* The iteration that has just ended logged an error (every iteration begins
\* with an info entry, so an error entry at the loop test is its own).
IterationFailed == pc = "loop" /\ log # <<>> /\ Last(log)[1] = "error"

\* ---- C1 ---------------------------------------------------------------
\* C1: in every run of the crawl the number of dequeue operations (fetch
\* attempts) never exceeds maxIterations, whatever is discovered and enqueued.
C1_DequeuesWithinBudget ==
    Started => Len(fetched) <= max_iterations

\* The same bound for the budgets a valid configuration has.
DequeuesWithinNonNegativeBudget ==
    (Started /\ max_iterations >= 0) => Len(fetched) <= max_iterations

\* ---- C2 ---------------------------------------------------------------
\* C2: in every reachable state the work queue holds at most
\* capacity = iteration_limit + 10 tasks, and an enqueue attempted on a full
\* queue is dropped: no error, no blocking, the queue unchanged.
C2_QueueWithinCapacity ==
    Started => Len(task_queue) <= Capacity

\* A refused enqueue changes nothing but the position of the generator.
DropIsSilent ==
    [][(pc = "offer" /\ QueueFull(task_queue, Capacity)) =>
          /\ task_queue' = task_queue
          /\ log' = log
          /\ exit_code' = exit_code
          /\ pc' = "links"]_vars

\* The same bound for the budgets a valid configuration has.
QueueWithinPositiveCapacity ==
    (Started /\ max_iterations > 0) => Len(task_queue) <= Capacity

\* ---- C3 ---------------------------------------------------------------
\* C3: an iteration in which anything fails is abandoned entirely: it has
\* yielded no record and enqueued no task when its failure is logged, and the
\* loop goes on to its test.
C3_FailedIterationYieldsNothing ==
    IterationFailed =>
        /\ Len(yielded) = mark.yielded
        /\ Len(accepted) = mark.accepted
        /\ exit_code = <<>>

\* The same for the failures of download and parsing alone.
FailedFetchYieldsNothing ==
    (IterationFailed /\ Last(log) # ErrSleep) =>
        /\ Len(yielded) = mark.yielded
        /\ Len(accepted) = mark.accepted
        /\ exit_code = <<>>

\* ---- C4 ---------------------------------------------------------------
AfterBadStatus == pc = "loop" /\ log # <<>> /\ Last(log)[2] = "Server returned"

\* C4: a download answered with a status other than 200 aborts only its own
\* iteration: the counter has been incremented for the attempt and keeps its
\* value, nothing is yielded or enqueued, the run does not end, and when the
\* queue is not empty and the counter is below the maximum the next step
\* dequeues the task at the head of the queue.
C4_BadStatusAbortsOnlyTheIteration ==
    /\ [](AfterBadStatus =>
            /\ exit_code = <<>>
            /\ Len(log) >= 2
            /\ log[Len(log) - 1] = <<"info", "Iteration", iterations>>
            /\ Len(yielded) = mark.yielded
            /\ Len(accepted) = mark.accepted)
    /\ [][(AfterBadStatus /\ task_queue # <<>> /\ iterations < max_iterations) =>
            /\ pc' = "fetch"
            /\ current_url' = Head(task_queue)
            /\ task_queue' = Tail(task_queue)
            /\ iterations' = iterations + 1]_vars
    /\ [][(pc = "fetch" /\ Len(served') > Len(served)
              /\ Last(served').kind = "response" /\ Last(served').status # 200) =>
            /\ AfterBadStatus'
            /\ Last(log') = <<"error", "Server returned", Last(served').status>>
            /\ iterations' = iterations
            /\ task_queue' = task_queue]_vars

\* A 404 was answered, and the next queued task has been dequeued after it.
C4_Witness ==
    /\ pc = "fetch"
    /\ Len(log) >= 2
    /\ log[Len(log) - 1] = <<"error", "Server returned", 404>>
    /\ iterations >= 2

\* ---- C5 ---------------------------------------------------------------
\* C5: every yielded record comes from an anchor whose raw reference begins
\* with /wiki/, and its target is 'https://<lang>.wikipedia.org' + that
\* reference; a reference that does not begin with /wiki/ is never yielded,
\* never enqueued and causes no error.
C5_OnlyInScopeLinksAreYielded ==
    /\ [][Len(yielded') > Len(yielded) =>
            /\ elements # <<>>
            /\ BeginsWithWikiPath(Head(elements).href)
            /\ Last(yielded').href = Resolved(Head(elements).href, lang)
            /\ yielded' = Append(yielded, Last(yielded'))]_vars
    /\ [][Len(accepted') > Len(accepted) /\ pc # "crawl" =>
            /\ yielded # <<>>
            /\ Last(accepted') = Last(yielded).href]_vars
    /\ [][(pc = "links" /\ elements # <<>>
              /\ ~BeginsWithWikiPath(Head(elements).href)) =>
            /\ yielded' = yielded
            /\ task_queue' = task_queue
            /\ accepted' = accepted
            /\ log' = log
            /\ pc' = "links"
            /\ elements' = Tail(elements)]_vars

\* A page with an in-scope link, a link that misses the prefix and an anchor
\* without href has been processed to its end.
C5_Witness ==
    /\ pc = "links"
    /\ elements = <<>>
    /\ served # <<>>
    /\ Last(served).body = 3
    /\ Len(yielded) = mark.yielded + 2

\* ---- C6 ---------------------------------------------------------------
YieldedTexts == {yielded[i].text : i \in 1 .. Len(yielded)}

LastYieldOf(t) ==
    CHOOSE i \in 1 .. Len(yielded) :
        /\ yielded[i].text = t
        /\ \A j \in (i + 1) .. Len(yielded) : yielded[j].text # t

\* C6: the result map is the fold of the yielded sequence with
\* last-write-wins: it has one entry for each text yielded at least once (the
\* empty text included) and no other, and the value of a text is the target of
\* the last record yielded with that text.
C6_ResultIsLastWriteWins ==
    /\ DOMAIN result = YieldedTexts
    /\ \A t \in YieldedTexts : result[t] = yielded[LastYieldOf(t)].href

\* The crawl is over, two records with the same text and different targets
\* were yielded, and a record with the empty text was yielded.
C6_Witness ==
    /\ pc = "write"
    /\ \E i, j \in 1 .. Len(yielded) :
        /\ i < j
        /\ yielded[i].text = yielded[j].text
        /\ yielded[i].href # yielded[j].href
    /\ <<>> \in YieldedTexts

\* ---- C7 ---------------------------------------------------------------
InScopeAnchors(page) ==
    SelectSeq(page, LAMBDA a : BeginsWithWikiPath(a.href))

\* The text of an anchor: its descendant text nodes, one space between them.
RECURSIVE SpaceJoined(_)
SpaceJoined(ts) ==
    IF Len(ts) = 0 THEN <<>>
    ELSE IF Len(ts) = 1 THEN ts[1]
    ELSE SpaceJoined(SubSeq(ts, 1, Len(ts) - 1)) \o <<" ">> \o ts[Len(ts)]

RECURSIVE TextNodesOf(_)
TextNodesOf(children) ==
    IF children = <<>> THEN <<>>
    ELSE children[1].texts \o TextNodesOf(Tail(children))

VisibleText(a) == SpaceJoined(TextNodesOf(a.children))

\* C7: with maxIterations = 1 and a seed page that is fetched successfully,
\* the crawl makes exactly one iteration, of the seed; the result holds
\* exactly the in-scope links of that page, resolved, and nothing of its other
\* links; and the crawl ends with the tasks enqueued from the seed page still
\* in the queue, none of them fetched.
C7_SingleIteration ==
    (Done /\ max_iterations = 1 /\ ServedPage(1)) =>
        LET links == InScopeAnchors(Pages[served[1].body])
            n == IF Len(links) < max_iterations + 10 THEN Len(links) ELSE max_iterations + 10
        IN  /\ iterations = 1
            /\ fetched = <<url>>
            /\ Len(served) = 1
            /\ DOMAIN result = {VisibleText(links[i]) : i \in 1 .. Len(links)}
            /\ \A i \in 1 .. Len(links) :
                 (\A j \in (i + 1) .. Len(links) :
                      VisibleText(links[j]) # VisibleText(links[i]))
                     => result[VisibleText(links[i])] = Resolved(links[i].href, lang)
            /\ task_queue = [i \in 1 .. n |-> Resolved(links[i].href, lang)]
            /\ (url = SeedEn /\ served[1].body = 2) =>
                 /\ result = (<<"B">> :> Resolved(<<"/","w","i","k","i","/","B">>, <<"e","n">>))
                 /\ task_queue = << Resolved(<<"/","w","i","k","i","/","B">>, <<"e","n">>) >>

\* The scenario of the specification: seed https://en.wikipedia.org/wiki/A,
\* one iteration, a page with the links /wiki/B and https://example.com/x; the
\* run has ended and B is still queued.
C7_Witness ==
    /\ pc = "exit"
    /\ max_iterations = 1
    /\ url = SeedEn
    /\ ServedPage(1)
    /\ served[1].body = 2
    /\ task_queue # <<>>
    /\ output = <<result>>

\* ---- C8 ---------------------------------------------------------------
FetchedPages == {i \in 1 .. Len(served) : ServedPage(i)}

\* C8: the delay is applied exactly once for each successfully fetched
\* iteration, after all the links of its page have been yielded and enqueued,
\* and never in an iteration that failed.
C8_DelayOncePerFetchedPage ==
    (Started /\ pc \in {"loop", "write", "exit"}) =>
        sleeps = Cardinality(FetchedPages)

\* The same for the delays a valid configuration has.
DelayOncePerFetchedPageWhenNonNegative ==
    (Started /\ pc \in {"loop", "write", "exit"} /\ delay >= 0) =>
        sleeps = Cardinality(FetchedPages)

\* The delay comes after the last link of the page.
DelayAfterAllLinks ==
    [][sleeps' # sleeps =>
          /\ sleeps' = sleeps + 1
          /\ pc = "links" /\ elements = <<>>
          /\ pc' = "loop"]_vars

\* ---- C9 ---------------------------------------------------------------
IsDequeue == task_queue # <<>> /\ task_queue' = Tail(task_queue)

\* C9: the iteration counter never decreases, it grows by exactly one at each
\* dequeue and at no other step, whether the iteration then succeeds or
\* fails, and it always equals the number of tasks dequeued so far (the tasks
\* accepted into the queue that are no longer in it).
C9_CounterCountsDequeues ==
    /\ [](Started => iterations = Len(accepted) - Len(task_queue))
    /\ [][/\ iterations' \in {iterations, iterations + 1}
          /\ (iterations' = iterations + 1) <=> IsDequeue]_vars

\* Two tasks were dequeued; one iteration failed and one succeeded.
C9_Witness ==
    /\ pc = "loop"
    /\ iterations = 2
    /\ Cardinality(FetchedPages) = 1
    /\ sleeps = 1

\* ---- C10 --------------------------------------------------------------
\* C10: the crawl starts with the queue holding exactly the seed URL and the
\* counter at 0, and it enters Done only when the queue is empty or the
\* counter equals maxIterations.
C10_DoneOnlyWhenExhausted ==
    /\ (Started /\ fetched = <<>> /\ pc = "loop") =>
           (task_queue = <<url>> /\ iterations = 0)
    /\ Done => (task_queue = <<>> \/ iterations = max_iterations)

\* The same for the budgets a valid configuration has, and the loop goes on
\* while there is a task and budget left.
DoneOnlyWhenExhaustedNonNegative ==
    /\ (Started /\ fetched = <<>> /\ pc = "loop") =>
           (task_queue = <<url>> /\ iterations = 0)
    /\ (Done /\ max_iterations >= 0) =>
           (task_queue = <<>> \/ iterations = max_iterations)
    /\ (pc = "loop" /\ task_queue # <<>> /\ iterations < max_iterations) =>
           (ENABLED Dequeue /\ ~ENABLED Finish)

\* ---- C11 --------------------------------------------------------------
\* Some URL was fetched twice.
Refetched ==
    \E i, j \in 1 .. Len(fetched) : i < j /\ fetched[i] = fetched[j]

\* C11: every crawl eventually reaches Done, whatever the pages link to
\* (themselves and each other included) and whichever downloads fail, given
\* that every download and every delay returns.
C11_CrawlTerminates == [](Started => <>Done)

\* A crawl that fetched the same URL twice and had a failed download is Done.
C11_Witness ==
    /\ Done
    /\ Refetched
    /\ \E i \in 1 .. Len(served) : ~ServedPage(i)

\* ---- C12 --------------------------------------------------------------
\* C12: tasks are dequeued in the order they were accepted: the k-th URL
\* fetched is the k-th URL accepted into the queue, the seed first, and the
\* queue holds the accepted URLs not fetched yet, in that order.
C12_FifoOrder ==
    Started =>
        /\ Len(fetched) <= Len(accepted)
        /\ \A k \in 1 .. Len(fetched) : fetched[k] = accepted[k]
        /\ accepted[1] = url
        /\ task_queue = SubSeq(accepted, Len(fetched) + 1, Len(accepted))

\* Three fetches, the second and third of different links of the first page.
C12_Witness ==
    /\ Len(fetched) = 3
    /\ fetched[2] # fetched[3]
    /\ accepted[2] = fetched[2]
    /\ mark.accepted = 3

\* ---- C13 --------------------------------------------------------------
\* The URL is scheme://<lang>.wikipedia.org/..., scheme http or https and
\* <lang> one or more lower-case letters.
MatchesSitePattern(u) ==
    \E scheme \in {<<"h","t","t","p">>, <<"h","t","t","p","s">>} :
      \E n \in 1 .. Len(u) :
        LET head == scheme \o <<":","/","/">>
            from == Len(head) + 1
            tail == <<".","w","i","k","i","p","e","d","i","a",".","o","r","g","/">>
        IN  /\ from + n - 1 + Len(tail) <= Len(u)
            /\ SubSeq(u, 1, Len(head)) = head
            /\ \A i \in from .. (from + n - 1) : u[i] \in Lowercase
            /\ SubSeq(u, from + n, from + n - 1 + Len(tail)) = tail

\* C13: a run whose seed URL does not match the site-scope pattern performs
\* no fetch, writes no output file and ends with a non-zero status.
C13_BadSeedExitsWithoutFetch ==
    ~MatchesSitePattern(url) =>
        /\ fetched = <<>>
        /\ served = <<>>
        /\ output = <<>>
        /\ pc = "exit" => exit_code = <<1>>

\* The same for the seeds that parse_url rejects.
RejectedSeedExitsWithoutFetch ==
    (parse_url(url) = NoMatch) =>
        /\ fetched = <<>>
        /\ served = <<>>
        /\ output = <<>>
        /\ pc \in {"main", "exit"}
        /\ pc = "exit" => exit_code = <<1>>

\* ---- C14 --------------------------------------------------------------
\* C14: for a seed that is accepted, the output file is written at most once,
\* only after the crawl is Done and with the result map; the run ends with
\* status zero iff that write succeeded, and with a non-zero status only
\* because the write failed; failed downloads and parses do not change the
\* status, and a run in which every download or parse failed writes the
\* empty map and exits zero.
C14_WriteOnceAfterDone ==
    Started =>
        /\ Len(output) <= 1
        /\ output # <<>> => (pc = "exit" /\ output = <<result>>)
        /\ pc # "exit" => exit_code = <<>>
        /\ pc = "exit" =>
             \/ exit_code = <<0>> /\ Len(output) = 1
             \/ exit_code = <<1>> /\ output = <<>>
                  /\ Last(log) = <<"error", "Failed to write file", 0>>
        /\ (pc = "exit" /\ exit_code = <<0>>
               /\ \A i \in 1 .. Len(served) : ~ServedPage(i)) => output = << <<>> >>

\* The only iteration of the run failed; the empty map was written, status
\* zero.
C14_Witness ==
    /\ pc = "exit"
    /\ Len(served) >= 1
    /\ \A i \in 1 .. Len(served) : ~ServedPage(i)
    /\ output = <<EmptyDict>>
    /\ exit_code = <<0>>

\* ---- C15 --------------------------------------------------------------
\* C15: the crawl engine only ever runs with delay >= 0 and
\* maxIterations > 0; a run given a negative delay or a non-positive maximum
\* performs no fetch, writes no output and ends with a non-zero status.
C15_InvalidArgumentsAreRejected ==
    /\ Started => (delay >= 0 /\ max_iterations > 0)
    /\ (delay < 0 \/ max_iterations <= 0) =>
          /\ fetched = <<>>
          /\ output = <<>>
          /\ pc = "exit" => exit_code = <<1>>

\* ---- C16 --------------------------------------------------------------
Occurs(u, seq) == \E i \in 1 .. Len(seq) : seq[i] = u

\* C16: there is no visited set: a link whose URL was fetched before, or is
\* in the queue already, is enqueued like any other whenever the queue has
\* room, and fetching a URL again increments the counter like any other
\* fetch.
C16_NoVisitedSet ==
    /\ [][(pc = "offer" /\ (Occurs(href, fetched) \/ Occurs(href, task_queue))
              /\ (Len(task_queue) < Capacity \/ Capacity <= 0)) =>
            task_queue' = Append(task_queue, href)]_vars
    /\ [][(pc = "loop" /\ task_queue # <<>> /\ Occurs(Head(task_queue), fetched)
              /\ iterations < max_iterations) =>
            /\ pc' = "fetch"
            /\ current_url' = Head(task_queue)
            /\ iterations' = iterations + 1]_vars

\* The seed was linked from a fetched page, enqueued again and fetched again,
\* the second fetch being the second iteration; and some URL is in the queue
\* twice.
C16_Witness ==
    /\ pc = "fetch"
    /\ fetched = <<url, url>>
    /\ iterations = 2
    /\ \E i, j \in 1 .. Len(task_queue) : i < j /\ task_queue[i] = task_queue[j]

\* ---- C17 --------------------------------------------------------------
\* C17: in absolute-scheme mode a page with one anchor whose reference begins
\* with http:// and one anchor, of text S, whose reference begins with
\* https:// yields exactly the record of the https:// anchor, its reference
\* unchanged, and nothing for the http:// anchor.
C17_OnlySecureLinkIsYielded ==
    (pc \in {"write", "exit"} /\ ServedPage(1) /\ served[1].body = 6) =>
        LET secure == <<"h","t","t","p","s",":","/","/","s","e","c","u","r","e",
                        ".","e","x","a","m","p","l","e","/","b">>
        IN  /\ yielded = << [text |-> <<"S">>, href |-> secure] >>
            /\ result = (<<"S">> :> secure)

\* The page with the two anchors was processed and the map written.
C17_Witness ==
    /\ pc = "exit"
    /\ ServedPage(1)
    /\ served[1].body = 6
    /\ output = <<result>>
    /\ yielded # <<>>

\* ---- C18 --------------------------------------------------------------
\* The records of the in-scope anchors of a page, in document order.
RecordsOf(page, lg) ==
    LET links == InScopeAnchors(page)
    IN  [i \in 1 .. Len(links) |->
            [text |-> VisibleText(links[i]), href |-> Resolved(links[i].href, lg)]]

\* What the running iteration has yielded so far.
YieldedNow == SubSeq(yielded, mark.yielded + 1, Len(yielded))

\* C18: on a successfully fetched page every in-scope link is yielded, in
\* document order, whether the queue has room or not; a link is yielded
\* before it is offered to the queue, and it is enqueued iff the queue is
\* below its capacity at that moment.
C18_YieldThenOfferEachLink ==
    /\ []((pc = "links" /\ elements = <<>>) =>
            YieldedNow = RecordsOf(Pages[Last(served).body], lang))
    /\ []((pc = "offer") =>
            /\ yielded # <<>>
            /\ href = Last(yielded).href
            /\ (Len(accepted) - 1) + Len(dropped) = Len(yielded) - 1)
    /\ []((Started /\ pc # "offer") =>
            (Len(accepted) - 1) + Len(dropped) = Len(yielded))
    /\ [][Len(yielded') > Len(yielded) =>
            /\ accepted' = accepted /\ dropped' = dropped
            /\ task_queue' = task_queue
            /\ pc' = "offer"]_vars
    /\ [][pc = "offer" =>
            /\ (Len(task_queue) < Capacity) => task_queue' = Append(task_queue, href)
            /\ (Len(task_queue) >= Capacity) => task_queue' = task_queue
            /\ yielded' = yielded
            /\ pc' = "links"]_vars

\* The large page was processed to its end: all its links were yielded, the
\* last ones refused by the full queue.
C18_Witness ==
    /\ pc = "links"
    /\ elements = <<>>
    /\ dropped # <<>>
    /\ Len(YieldedNow) = BigPageAnchors
    /\ Len(task_queue) = Capacity

\* ---- C19 --------------------------------------------------------------
\* The position of the first c in u.
FirstIndex(u, c) == CHOOSE i \in 1 .. Len(u) : u[i] = c /\ \A j \in 1 .. (i - 1) : u[j] # c

\* The scope segment of the seed: what stands between :// and the first dot.
SeedScope == SubSeq(url, FirstIndex(url, ":") + 3, FirstIndex(url, ".") - 1)

\* https://<scope>.wikipedia.org/wiki/...
OnSeedSite(u) ==
    LET site == <<"h","t","t","p","s",":","/","/">> \o SeedScope
                  \o <<".","w","i","k","i","p","e","d","i","a",".","o","r","g",
                       "/","w","i","k","i","/">>
    IN  Len(u) >= Len(site) /\ SubSeq(u, 1, Len(site)) = site

\* C19: traversal never leaves the seed's site: every task in the queue and
\* every URL fetched is the seed URL itself or a URL
\* https://<lang>.wikipedia.org/wiki/... with <lang> the scope segment of the
\* seed URL.
C19_TasksStayOnSeedSite ==
    Started =>
        /\ \A i \in 1 .. Len(task_queue) :
             task_queue[i] = url \/ OnSeedSite(task_queue[i])
        /\ \A i \in 1 .. Len(fetched) :
             fetched[i] = url \/ OnSeedSite(fetched[i])
        /\ (pc \in {"fetch", "links", "offer"}) =>
             (current_url = url \/ OnSeedSite(current_url))

\* From the seed http://ru.wikipedia.org/ a link of the seed page was fetched.
C19_Witness ==
    /\ url = SeedRu
    /\ Len(fetched) >= 2
    /\ fetched[2] # url
    /\ task_queue # <<>>


\* The crawl with the unbounded queue would go on exactly when the crawl does.
SameLoopCondition ==
    (task_queue = <<>>) <=> (unbounded.queue = <<>>)

\* The tasks the remaining budget can still reach are the same in both queues.
ReachableTasks(q) ==
    IF Len(q) <= max_iterations - iterations
    THEN q
    ELSE SubSeq(q, 1, max_iterations - iterations)

\* C20: with a positive iteration budget the bound max_iterations + 10 on the
\* task queue cannot be observed: the crawl fetches the same URLs in the same
\* order as a crawl over the same pages and fetch outcomes whose queue refuses
\* nothing, and stops exactly when that crawl stops, so both yield the same
\* links; every task the bound refuses lies beyond the budget.
C20_QueueBoundIsUnobservable ==
    (max_iterations > 0 /\ Started) =>
        /\ unbounded.fetched = fetched
        /\ pc = "loop" /\ iterations < max_iterations => SameLoopCondition
        /\ ReachableTasks(task_queue) = ReachableTasks(unbounded.queue)
        /\ Len(unbounded.queue) = Len(task_queue) + Len(dropped)

C20_Witness ==
    /\ Done
    /\ max_iterations >= 2
    /\ dropped # <<>>
    /\ Len(fetched) = max_iterations
    /\ unbounded.fetched = fetched

====
